---------------------------- MODULE Spec2Model ----------------------------
(*************************************************************************)
(* Model of the statistics functions of src/utils.py.                    *)
(*                                                                       *)
(* One call is in progress at a time: a caller picks a function and its  *)
(* arguments (pc = "idle" -> "returned"), the function runs to its       *)
(* return or to the exception it raises, and the caller takes the        *)
(* outcome (pc = "returned" -> "idle").                                  *)
(*                                                                       *)
(* Numbers.  Rates, the chi-square statistic and the relative            *)
(* improvement are exact rationals <<num, den>> in lowest terms with     *)
(* den > 0; float('inf') is <<1, 0>>.  The confidence interval needs a   *)
(* square root and a normal quantile, so it is computed in fixed point   *)
(* with Scale units per 1.  The p-value of a non-zero statistic is the   *)
(* value of the chi-square survival function (1 degree of freedom) at    *)
(* that statistic; it is kept as the term <<"chi2.sf", num, den>>, and   *)
(* the survival function at 0 is the number 1.0.  Binary floating-point  *)
(* rounding is not part of the model.                                    *)
(*                                                                       *)
(* scipy.stats.chi2_contingency and scipy.stats.norm.ppf are library     *)
(* code called from utils.py; they are modelled by their documented      *)
(* behaviour on the 2x2 tables and the probabilities utils.py passes.    *)
(*************************************************************************)
EXTENDS Integers, Sequences, FiniteSets, TLC

VARIABLES pc, fn, args, result, contingency_table, z

\* concurrent callers of the statistics functions: the position of each
\* thread in its call, the call it made, the frame (parameters and locals)
\* of each call, and the outcome each thread received
VARIABLES cpc, called, frames, cresult

vars == <<pc, fn, args, result, contingency_table, z>>

cvars == <<cpc, called, frames, cresult>>

\* the inventory: the position of its caller, InventoryManager.products
\* (SKU -> Product), the file inventory_data.json, and the last call with
\* its arguments and return value
VARIABLES ipc, products, file, last

ivars == <<ipc, products, file, last>>

\* the scraper: the position of get_page_content, its url, the loop
\* variable attempt, the outcome of every request made so far, the number
\* of time.sleep(1) calls, what get_page_content returned, and what
\* scrape_inventory did with it
VARIABLES spc, url, attempt, requests, sleeps, page, scraped

svars == <<spc, url, attempt, requests, sleeps, page, scraped>>

allvars == <<vars, cvars, ivars, svars>>

\* what a step of the sequential caller leaves alone, and what a step of
\* a concurrent caller leaves alone
statsOthers == <<cvars, ivars, svars>>

concurrentOthers == <<vars, ivars, svars>>

inventoryOthers == <<vars, cvars, svars>>

scraperOthers == <<vars, cvars, ivars>>

-----------------------------------------------------------------------------
(* Bounds of the model *)

\* counts (successes and totals) are drawn from 0..MaxCount
MaxCount == 4

\* number of threads calling the statistics functions at once
NumThreads == 2

\* quantities and prices are drawn from -1..MaxAmount
MaxAmount == 1

\* scraped batches passed to add_products have at most MaxBatch entries
MaxBatch == 2

\* fixed-point resolution of the confidence-interval arithmetic
Scale == 10000

\* the counts of the two end-to-end scenarios: (100, 1000) against
\* (120, 1000), and (0, 1000) against (5, 1000)
ScenarioCounts == {<<100, 1000>>, <<120, 1000>>, <<0, 1000>>, <<5, 1000>>}

\* <<successes, total>> pairs a caller may pass; pairs with
\* successes > total are outside the documented contract but can be passed
SmallCounts == (0..MaxCount) \X (0..MaxCount)

Samples == SmallCounts \cup ScenarioCounts

\* samples of the same proportion at growing totals
GrowingCounts ==
    {<<1, 10>>, <<10, 100>>, <<1, 2>>, <<5, 10>>, <<50, 100>>, <<500, 1000>>,
     <<3, 4>>, <<6, 8>>, <<75, 100>>, <<0, 10>>, <<10, 10>>}

\* the two groups of a comparison: two small samples or two scenario samples
SamplePairs == (SmallCounts \X SmallCounts) \cup (ScenarioCounts \X ScenarioCounts)

InContract(s, t) == 0 <= s /\ s <= t

-----------------------------------------------------------------------------
(* Outcomes of a call *)

Return(v) == [kind |-> "return", value |-> v]

Raise(e) == [kind |-> "raise", value |-> e]

\* the value of a local variable the call never assigned
NotBuilt == <<>>

NotComputed == <<>>

-----------------------------------------------------------------------------
(* Exact rational arithmetic *)

Abs(x) == IF x < 0 THEN -x ELSE x

RECURSIVE GCD(_, _)
GCD(a, b) == IF b = 0 THEN a ELSE GCD(b, a % b)

\* the rational n/d in lowest terms, d # 0
Rat(n, d) ==
    LET g == GCD(Abs(n), Abs(d))
        s == IF d < 0 THEN -1 ELSE 1
    IN  <<(s * n) \div g, (s * d) \div g>>

Zero == <<0, 1>>

Half == <<1, 2>>

Inf == <<1, 0>>

\* sums and products cancel common factors before they multiply
RAdd(a, b) ==
    LET g == GCD(a[2], b[2])
    IN  Rat(a[1] * (b[2] \div g) + b[1] * (a[2] \div g), (a[2] \div g) * b[2])

RNeg(a) == <<-a[1], a[2]>>

RSub(a, b) == RAdd(a, RNeg(b))

RMul(a, b) ==
    LET g1 == GCD(Abs(a[1]), b[2])
        g2 == GCD(Abs(b[1]), a[2])
    IN  Rat((a[1] \div g1) * (b[1] \div g2), (a[2] \div g2) * (b[2] \div g1))

\* a / b for b # 0
RQuot(a, b) ==
    IF b[1] < 0 THEN RMul(a, <<-b[2], -b[1]>>) ELSE RMul(a, <<b[2], b[1]>>)

RAbs(a) == <<Abs(a[1]), a[2]>>

RLess(a, b) == a[1] * b[2] < b[1] * a[2]

RLeq(a, b) == a[1] * b[2] <= b[1] * a[2]

RMin(a, b) == IF RLess(b, a) THEN b ELSE a

RSign(a) == IF a[1] > 0 THEN <<1, 1>> ELSE IF a[1] < 0 THEN <<-1, 1>> ELSE Zero

\* Python's / on numbers: ZeroDivisionError on a zero divisor
TrueDiv(a, b) ==
    IF b[1] = 0 THEN Raise("ZeroDivisionError") ELSE Return(RQuot(a, b))

-----------------------------------------------------------------------------
(* Rates: src/utils.py lines 4-10 and 49-51 *)

calculate_efficiency_rate(completed_tasks, total_time) ==
    IF total_time > 0
    THEN TrueDiv(<<completed_tasks, 1>>, <<total_time, 1>>)
    ELSE Return(Zero)

\* the guard total_items >= 0 in place of total_items > 0
M_accuracy_rate_guard(correct_items, total_items) ==
    IF total_items >= 0
    THEN TrueDiv(<<correct_items, 1>>, <<total_items, 1>>)
    ELSE Return(Zero)

\* the quotient upside down
M_accuracy_rate_inverted(correct_items, total_items) ==
    IF total_items > 0
    THEN TrueDiv(<<total_items, 1>>, <<correct_items, 1>>)
    ELSE Return(Zero)

calculate_accuracy_rate(correct_items, total_items) ==
    IF total_items > 0
    THEN TrueDiv(<<correct_items, 1>>, <<total_items, 1>>)
    ELSE Return(Zero)

calculate_utilization_rate(used_capacity, total_capacity) ==
    IF total_capacity > 0
    THEN TrueDiv(<<used_capacity, 1>>, <<total_capacity, 1>>)
    ELSE Return(Zero)

-----------------------------------------------------------------------------
(* Relative improvement: src/utils.py lines 43-47 *)

Hundred == <<100, 1>>

\* test_rate >= 0 in place of test_rate > 0
M_relative_improvement_zero_test(control_rate, test_rate) ==
    IF control_rate = Zero
    THEN IF RLeq(Zero, test_rate) THEN Return(Inf) ELSE Return(Zero)
    ELSE LET q == TrueDiv(RSub(test_rate, control_rate), control_rate)
         IN  IF q.kind = "raise" THEN q
             ELSE Return(RMul(q.value, Hundred))

\* the difference divided by test_rate
M_relative_improvement_by_test(control_rate, test_rate) ==
    IF control_rate = Zero
    THEN IF RLess(Zero, test_rate) THEN Return(Inf) ELSE Return(Zero)
    ELSE LET q == TrueDiv(RSub(test_rate, control_rate), test_rate)
         IN  IF q.kind = "raise" THEN q
             ELSE Return(RMul(q.value, Hundred))

get_relative_improvement(control_rate, test_rate) ==
    IF control_rate = Zero
    THEN IF RLess(Zero, test_rate) THEN Return(Inf) ELSE Return(Zero)
    ELSE LET q == TrueDiv(RSub(test_rate, control_rate), control_rate)
         IN  IF q.kind = "raise" THEN q
             ELSE Return(RMul(q.value, Hundred))

-----------------------------------------------------------------------------
(* Confidence interval: src/utils.py lines 12-24, in fixed point.        *)
(* A float is <<"fin", v>> (v / Scale), an infinity or nan.              *)

Fin(v) == <<"fin", v>>

PInf == <<"inf", 1>>

NInf == <<"inf", -1>>

NaN == <<"nan", 0>>

IsFin(x) == x[1] = "fin"

\* confidence levels, in thousandths; 0 and 1000 are the ends of the open
\* interval (0, 1) and lie outside it
Confidences == {0, 500, 800, 900, 950, 990, 998, 1000}

\* the standard normal quantile at q thousandths, for the q that
\* (1 + confidence) / 2 takes on Confidences; ppf(0.5) = 0, ppf(1) = +inf
norm_ppf(q) ==
    LET z10k == CASE q >= 1000 -> 0
                  [] q = 500  -> 0
                  [] q = 750  -> 6745
                  [] q = 900  -> 12816
                  [] q = 950  -> 16449
                  [] q = 975  -> 19600
                  [] q = 995  -> 25758
                  [] q = 999  -> 30902
    IN  IF q >= 1000 THEN PInf ELSE Fin((z10k * Scale) \div 10000)

RECURSIVE SqrtSearch(_, _, _)
SqrtSearch(x, lo, hi) ==
    IF lo >= hi THEN lo
    ELSE LET mid == (lo + hi + 1) \div 2
         IN  IF mid * mid <= x THEN SqrtSearch(x, mid, hi)
             ELSE SqrtSearch(x, lo, mid - 1)

\* np.sqrt; the argument x is in units of 1 / Scale^2, the root in units
\* of 1 / Scale, rounded down; nan for a negative argument
np_sqrt(x) ==
    IF x < 0 THEN NaN ELSE Fin(SqrtSearch(x, 0, Scale))

\* float product z * se
FMul(a, b) ==
    IF a = NaN \/ b = NaN THEN NaN
    ELSE IF IsFin(a) /\ IsFin(b) THEN Fin((a[2] * b[2]) \div Scale)
    ELSE IF (IsFin(a) /\ a[2] = 0) \/ (IsFin(b) /\ b[2] = 0) THEN NaN
    ELSE IF (a[2] > 0) = (b[2] > 0) THEN PInf ELSE NInf

\* p - m and p + m for a finite p
FSub(p, m) ==
    IF m = NaN THEN NaN
    ELSE IF IsFin(m) THEN Fin(p - m[2])
    ELSE IF m = PInf THEN NInf ELSE PInf

FAdd(p, m) ==
    IF m = NaN THEN NaN
    ELSE IF IsFin(m) THEN Fin(p + m[2])
    ELSE m

\* Python max(0, x): x when x > 0 compares true, else the first argument
PyMax0(x) ==
    IF (IsFin(x) /\ x[2] > 0) \/ x = PInf THEN x ELSE Fin(0)

\* Python min(1, x): x when x < 1 compares true, else the first argument
PyMin1(x) ==
    IF (IsFin(x) /\ x[2] < Scale) \/ x = NInf THEN x ELSE Fin(Scale)

\* the standard error without the division by total
M_interval_locals_undivided(successes, total, confidence) ==
    IF total = 0
    THEN [raised |-> TRUE, p |-> 0, z |-> NotComputed, se |-> NaN]
    ELSE LET p == (successes * Scale) \div total
         IN  [raised |-> FALSE,
              p      |-> p,
              z      |-> norm_ppf((1000 + confidence) \div 2),
              se     |-> IF p > Scale THEN NaN
                         ELSE np_sqrt(p * (Scale - p))]

\* lines 17-19: p, z and se; the division raises ZeroDivisionError on
\* total = 0
interval_locals(successes, total, confidence) ==
    IF total = 0
    THEN [raised |-> TRUE, p |-> 0, z |-> NotComputed, se |-> NaN]
    ELSE LET p == (successes * Scale) \div total
         IN  [raised |-> FALSE,
              p      |-> p,
              z      |-> norm_ppf((1000 + confidence) \div 2),
              se     |-> IF p > Scale THEN NaN
                         ELSE np_sqrt((p * (Scale - p)) \div total)]

\* the interval without max(0, .) and min(1, .)
M_confidence_interval_unclamped(successes, total, confidence) ==
    IF total = 0
    THEN [outcome |-> Return(<<Fin(0), Fin(0)>>), z |-> NotComputed]
    ELSE LET l == interval_locals(successes, total, confidence)
         IN  IF l.raised
             THEN [outcome |-> Raise("ZeroDivisionError"), z |-> NotComputed]
             ELSE [outcome |-> Return(<<FSub(l.p, FMul(l.z, l.se)),
                                        FAdd(l.p, FMul(l.z, l.se))>>),
                   z |-> l.z]

\* the guard total < 0 in place of total == 0
M_confidence_interval_guard(successes, total, confidence) ==
    IF total < 0
    THEN [outcome |-> Return(<<Fin(0), Fin(0)>>), z |-> NotComputed]
    ELSE LET l == interval_locals(successes, total, confidence)
         IN  IF l.raised
             THEN [outcome |-> Raise("ZeroDivisionError"), z |-> NotComputed]
             ELSE [outcome |-> Return(<<PyMax0(FSub(l.p, FMul(l.z, l.se))),
                                        PyMin1(FAdd(l.p, FMul(l.z, l.se)))>>),
                   z |-> l.z]

\* the outcome of the call and the z it computed
calculate_confidence_interval(successes, total, confidence) ==
    IF total = 0
    THEN [outcome |-> Return(<<Fin(0), Fin(0)>>), z |-> NotComputed]
    ELSE LET l == interval_locals(successes, total, confidence)
         IN  IF l.raised
             THEN [outcome |-> Raise("ZeroDivisionError"), z |-> NotComputed]
             ELSE [outcome |-> Return(<<PyMax0(FSub(l.p, FMul(l.z, l.se))),
                                        PyMin1(FAdd(l.p, FMul(l.z, l.se)))>>),
                   z |-> l.z]

-----------------------------------------------------------------------------
(* Chi-square test: src/utils.py lines 26-41 *)

\* the literal 1.0 returned as p-value
P_One == <<"p", 1, 1>>

\* chi2.sf(x, df = 1): 1.0 at 0, and for x > 0 the value of the survival
\* function at x, which is strictly decreasing in x
chi2_sf(x) == IF x = Zero THEN P_One ELSE <<"chi2.sf", x[1], x[2]>>

Cells == {<<1, 1>>, <<1, 2>>, <<2, 1>>, <<2, 2>>}

\* scipy.stats.contingency.expected_freq: row sum * column sum / total
expected_freq(observed) ==
    LET n == observed[1][1] + observed[1][2] + observed[2][1] + observed[2][2]
    IN  [i \in 1..2 |->
           [j \in 1..2 |->
              Rat((observed[i][1] + observed[i][2])
                    * (observed[1][j] + observed[2][j]), n)]]

\* the correction of a constant 0.5, not capped by the difference
M_chi2_term_uncapped(o, e) ==
    LET diff      == RSub(e, o)
        corrected == RAdd(o, RMul(Half, RSign(diff)))
        d         == RSub(corrected, e)
    IN  RQuot(RMul(d, d), e)

\* one term of the statistic: Yates' correction moves the observed count
\* towards the expected one by min(0.5, |expected - observed|), then
\* (observed - expected)^2 / expected
chi2_term(o, e) ==
    LET diff      == RSub(e, o)
        magnitude == RMin(Half, RAbs(diff))
        corrected == RAdd(o, RMul(magnitude, RSign(diff)))
        d         == RSub(corrected, e)
    IN  RQuot(RMul(d, d), e)

\* scipy.stats.chi2_contingency on a 2x2 table (1 degree of freedom,
\* correction = True): ValueError on a negative count and on an expected
\* frequency of zero, else (chi2, p)
chi2_contingency(observed) ==
    LET expected == expected_freq(observed)
        term(c)  == chi2_term(<<observed[c[1]][c[2]], 1>>, expected[c[1]][c[2]])
        chi2     == RAdd(RAdd(term(<<1, 1>>), term(<<1, 2>>)),
                         RAdd(term(<<2, 1>>), term(<<2, 2>>)))
    IN  IF \E c \in Cells : observed[c[1]][c[2]] < 0
        THEN Raise("ValueError")
        ELSE IF \E c \in Cells : expected[c[1]][c[2]] = Zero
        THEN Raise("ValueError")
        ELSE Return(<<chi2, chi2_sf(chi2)>>)

\* the guard with "and" in place of "or"
M_significance_and(control_success, control_total, test_success, test_total) ==
    IF control_total = 0 /\ test_total = 0
    THEN [outcome |-> Return(<<Zero, P_One>>), table |-> NotBuilt]
    ELSE LET t == <<<<control_success, control_total - control_success>>,
                    <<test_success, test_total - test_success>>>>
         IN  [outcome |-> chi2_contingency(t), table |-> t]

\* the failures of the test group taken from control_total
M_significance_wrong_total(control_success, control_total, test_success, test_total) ==
    IF control_total = 0 \/ test_total = 0
    THEN [outcome |-> Return(<<Zero, P_One>>), table |-> NotBuilt]
    ELSE LET t == <<<<control_success, control_total - control_success>>,
                    <<test_success, control_total - test_success>>>>
         IN  [outcome |-> chi2_contingency(t), table |-> t]

\* the outcome of the call and the contingency table it built
calculate_statistical_significance(control_success, control_total, test_success, test_total) ==
    IF control_total = 0 \/ test_total = 0
    THEN [outcome |-> Return(<<Zero, P_One>>), table |-> NotBuilt]
    ELSE LET t == <<<<control_success, control_total - control_success>>,
                    <<test_success, test_total - test_success>>>>
         IN  [outcome |-> chi2_contingency(t), table |-> t]

-----------------------------------------------------------------------------
(* The calls *)

\* rates a caller derives from in-contract counts
Rates == {calculate_accuracy_rate(c[1], c[2]).value :
             c \in {x \in Samples : InContract(x[1], x[2])}}

StatsInit ==
    /\ pc = "idle"
    /\ fn = "none"
    /\ args = <<>>
    /\ result = Return(<<>>)
    /\ contingency_table = NotBuilt
    /\ z = NotComputed

CallEfficiencyRate ==
    /\ pc = "idle"
    /\ \E c \in Samples :
         /\ args' = c
         /\ result' = calculate_efficiency_rate(c[1], c[2])
    /\ fn' = "calculate_efficiency_rate"
    /\ pc' = "returned"
    /\ UNCHANGED <<contingency_table, z>>
    /\ UNCHANGED statsOthers

CallAccuracyRate ==
    /\ pc = "idle"
    /\ \E c \in Samples :
         /\ args' = c
         /\ result' = calculate_accuracy_rate(c[1], c[2])
    /\ fn' = "calculate_accuracy_rate"
    /\ pc' = "returned"
    /\ UNCHANGED <<contingency_table, z>>
    /\ UNCHANGED statsOthers

CallUtilizationRate ==
    /\ pc = "idle"
    /\ \E c \in Samples :
         /\ args' = c
         /\ result' = calculate_utilization_rate(c[1], c[2])
    /\ fn' = "calculate_utilization_rate"
    /\ pc' = "returned"
    /\ UNCHANGED <<contingency_table, z>>
    /\ UNCHANGED statsOthers

CallConfidenceInterval ==
    /\ pc = "idle"
    /\ \E c \in Samples \cup GrowingCounts, confidence \in Confidences :
         LET r == calculate_confidence_interval(c[1], c[2], confidence)
         IN  /\ args' = <<c[1], c[2], confidence>>
             /\ result' = r.outcome
             /\ z' = r.z
    /\ fn' = "calculate_confidence_interval"
    /\ pc' = "returned"
    /\ UNCHANGED contingency_table
    /\ UNCHANGED statsOthers

CallStatisticalSignificance ==
    /\ pc = "idle"
    /\ \E ab \in SamplePairs :
         LET a == ab[1]
             b == ab[2]
             r == calculate_statistical_significance(a[1], a[2], b[1], b[2])
         IN  /\ args' = <<a[1], a[2], b[1], b[2]>>
             /\ result' = r.outcome
             /\ contingency_table' = r.table
    /\ fn' = "calculate_statistical_significance"
    /\ pc' = "returned"
    /\ UNCHANGED z
    /\ UNCHANGED statsOthers

CallRelativeImprovement ==
    /\ pc = "idle"
    /\ \E control_rate \in Rates, test_rate \in Rates :
         /\ args' = <<control_rate, test_rate>>
         /\ result' = get_relative_improvement(control_rate, test_rate)
    /\ fn' = "get_relative_improvement"
    /\ pc' = "returned"
    /\ UNCHANGED <<contingency_table, z>>
    /\ UNCHANGED statsOthers

\* the caller takes the outcome; the locals of the call are gone
TakeResult ==
    /\ pc = "returned"
    /\ pc' = "idle"
    /\ fn' = "none"
    /\ args' = <<>>
    /\ result' = Return(<<>>)
    /\ contingency_table' = NotBuilt
    /\ z' = NotComputed
    /\ UNCHANGED statsOthers

Next ==
    \/ CallEfficiencyRate
    \/ CallAccuracyRate
    \/ CallUtilizationRate
    \/ CallConfidenceInterval
    \/ CallStatisticalSignificance
    \/ CallRelativeImprovement
    \/ TakeResult


-----------------------------------------------------------------------------
(* Concurrent calls of the statistics functions.  A call binds its         *)
(* parameters in a frame of its own, assigns its locals there and returns; *)
(* utils.py has no global statement and no module-level variable besides   *)
(* the two imports.  Steps of different threads interleave freely.         *)

Threads == 1..NumThreads

\* calls the threads make; the two rates of get_relative_improvement are
\* written <<num, den, num, den>>
ConcurrentCalls ==
    {[fn |-> "calculate_accuracy_rate", args |-> <<1, 2>>],
     [fn |-> "calculate_accuracy_rate", args |-> <<0, 0>>],
     [fn |-> "calculate_confidence_interval", args |-> <<1, 4, 950>>],
     [fn |-> "calculate_confidence_interval", args |-> <<1, 2, 950>>],
     [fn |-> "calculate_confidence_interval", args |-> <<0, 0, 950>>],
     [fn |-> "calculate_statistical_significance", args |-> <<0, 2, 1, 2>>],
     [fn |-> "calculate_statistical_significance", args |-> <<1, 2, 2, 2>>],
     [fn |-> "calculate_statistical_significance", args |-> <<1, 2, 0, 0>>],
     [fn |-> "calculate_statistical_significance", args |-> <<0, 1, 0, 1>>],
     [fn |-> "get_relative_improvement", args |-> <<1, 2, 3, 4>>],
     [fn |-> "get_relative_improvement", args |-> <<0, 1, 1, 2>>]}

NoCall == [fn |-> "none", args |-> <<>>]

NoFrame == [fn |-> "none", args |-> <<>>, bound |-> FALSE, locals |-> <<>>]

NoResult == [fn |-> "none", outcome |-> Return(<<>>)]

\* all threads in the one frame, as with module-level variables
M_FrameOf_shared(t) == 1

\* the frame of the call thread t is in: its own
FrameOf(t) == t

\* the call assigns locals before it returns: p, z, se (lines 17-19) or
\* contingency_table (lines 35-38); the guards at lines 14 and 32 and the
\* one-expression functions return without any
NeedsLocals(f) ==
    \/ f.fn = "calculate_confidence_interval" /\ f.args[2] # 0
    \/ f.fn = "calculate_statistical_significance"
          /\ ~(f.args[2] = 0 \/ f.args[4] = 0)

LocalsOf(f) ==
    IF f.fn = "calculate_confidence_interval"
    THEN interval_locals(f.args[1], f.args[2], f.args[3])
    ELSE <<<<f.args[1], f.args[2] - f.args[1]>>,
           <<f.args[3], f.args[4] - f.args[3]>>>>

\* the return statement of the call, from the parameters and locals in
\* its frame; reading a local that was never assigned is UnboundLocalError
ReturnOf(f) ==
    IF NeedsLocals(f) /\ ~f.bound THEN Raise("UnboundLocalError")
    ELSE IF f.fn = "calculate_accuracy_rate"
    THEN calculate_accuracy_rate(f.args[1], f.args[2])
    ELSE IF f.fn = "get_relative_improvement"
    THEN get_relative_improvement(Rat(f.args[1], f.args[2]), Rat(f.args[3], f.args[4]))
    ELSE IF f.fn = "calculate_confidence_interval"
    THEN IF f.args[2] = 0 THEN Return(<<Fin(0), Fin(0)>>)
         ELSE Return(<<PyMax0(FSub(f.locals.p, FMul(f.locals.z, f.locals.se))),
                       PyMin1(FAdd(f.locals.p, FMul(f.locals.z, f.locals.se)))>>)
    ELSE IF f.args[2] = 0 \/ f.args[4] = 0 THEN Return(<<Zero, P_One>>)
         ELSE chi2_contingency(f.locals)

CInit ==
    /\ cpc = [t \in Threads |-> "idle"]
    /\ called = [t \in Threads |-> NoCall]
    /\ frames = [t \in Threads |-> NoFrame]
    /\ cresult = [t \in Threads |-> NoResult]

\* thread t calls a function: the parameters are bound in the frame
Enter(t) ==
    /\ cpc[t] = "idle"
    /\ \E c \in ConcurrentCalls :
         /\ called' = [called EXCEPT ![t] = c]
         /\ frames' = [frames EXCEPT ![FrameOf(t)] =
                          [fn |-> c.fn, args |-> c.args,
                           bound |-> FALSE, locals |-> <<>>]]
    /\ cpc' = [cpc EXCEPT ![t] = "entered"]
    /\ UNCHANGED cresult
    /\ UNCHANGED concurrentOthers

\* the call of thread t assigns its locals
Compute(t) ==
    /\ cpc[t] = "entered"
    /\ NeedsLocals(frames[FrameOf(t)])
    /\ LET f == frames[FrameOf(t)]
       IN  frames' = [frames EXCEPT ![FrameOf(t)] =
                         [fn |-> f.fn, args |-> f.args,
                          bound |-> TRUE, locals |-> LocalsOf(f)]]
    /\ cpc' = [cpc EXCEPT ![t] = "computed"]
    /\ UNCHANGED <<called, cresult>>
    /\ UNCHANGED concurrentOthers

\* the call of thread t returns or raises
Finish(t) ==
    /\ \/ cpc[t] = "computed"
       \/ cpc[t] = "entered" /\ ~NeedsLocals(frames[FrameOf(t)])
    /\ cresult' = [cresult EXCEPT ![t] =
                      [fn      |-> frames[FrameOf(t)].fn,
                       outcome |-> ReturnOf(frames[FrameOf(t)])]]
    /\ cpc' = [cpc EXCEPT ![t] = "returned"]
    /\ UNCHANGED <<called, frames>>
    /\ UNCHANGED concurrentOthers

\* thread t takes the outcome; the frame of the call is gone
Leave(t) ==
    /\ cpc[t] = "returned"
    /\ cpc' = [cpc EXCEPT ![t] = "idle"]
    /\ called' = [called EXCEPT ![t] = NoCall]
    /\ cresult' = [cresult EXCEPT ![t] = NoResult]
    /\ frames' = IF \E u \in Threads \ {t} : cpc[u] # "idle" /\ FrameOf(u) = FrameOf(t)
                 THEN frames
                 ELSE [frames EXCEPT ![FrameOf(t)] = NoFrame]
    /\ UNCHANGED concurrentOthers

CNext ==
    \E t \in Threads :
        \/ Enter(t)
        \/ Compute(t)
        \/ Finish(t)
        \/ Leave(t)

-----------------------------------------------------------------------------
(* Products: src/inventory/product.py *)

\* Python's None
PyNone == "<None>"

\* the SKUs callers use: two that are falsy (None and ''), two real ones
Skus == {PyNone, "", "A", "B"}

Falsy(x) == x = PyNone \/ x = ""

Amounts == -1..MaxAmount

\* Product.__init__ (lines 2-8)
Product(name, price, quantity, category, sku) ==
    [name |-> name, price |-> price, quantity |-> quantity,
     category |-> category, sku |-> sku, image_path |-> PyNone]

\* Product.set_image_path (lines 35-37)
set_image_path(product, path) == [product EXCEPT !.image_path = path]

\* any new_quantity is stored
M_update_quantity_unchecked(product, new_quantity) ==
    [product |-> [product EXCEPT !.quantity = new_quantity], ret |-> TRUE]

\* Product.update_quantity (lines 10-15): the product after the call and
\* the value returned
update_quantity(product, new_quantity) ==
    IF new_quantity >= 0
    THEN [product |-> [product EXCEPT !.quantity = new_quantity], ret |-> TRUE]
    ELSE [product |-> product, ret |-> FALSE]

\* Product.update_price (lines 17-22)
update_price(product, new_price) ==
    IF new_price >= 0
    THEN [product |-> [product EXCEPT !.price = new_price], ret |-> TRUE]
    ELSE [product |-> product, ret |-> FALSE]

\* Product.get_product_info (lines 24-33)
get_product_info(product) ==
    [name |-> product.name, price |-> product.price,
     quantity |-> product.quantity, category |-> product.category,
     sku |-> product.sku, image_path |-> product.image_path]

-----------------------------------------------------------------------------
(* InventoryManager: src/inventory/inventory_manager.py.  An operation    *)
(* yields the products map after the call and the value returned.         *)

EmptyMap == <<>>

\* the SKU test dropped: an existing entry is overwritten
M_add_product_overwrite(prods, product) ==
    IF ~Falsy(product.sku)
    THEN [products |-> (product.sku :> product) @@ prods, ret |-> TRUE]
    ELSE [products |-> prods, ret |-> FALSE]

\* add_product (lines 9-14)
add_product(prods, product) ==
    IF ~Falsy(product.sku) /\ product.sku \notin DOMAIN prods
    THEN [products |-> (product.sku :> product) @@ prods, ret |-> TRUE]
    ELSE [products |-> prods, ret |-> FALSE]

\* the Product add_products builds from one scraped entry (lines 19-27)
ProductOfData(product_data) ==
    LET product == Product(product_data.name, product_data.price,
                           product_data.stock, product_data.category,
                           product_data.sku)
    IN  IF ~Falsy(product_data.local_image_path)
        THEN set_image_path(product, product_data.local_image_path)
        ELSE product

\* add_products (lines 16-28): the entries in order, each through add_product
RECURSIVE add_products(_, _)
add_products(prods, products_data) ==
    IF products_data = <<>> THEN prods
    ELSE add_products(add_product(prods, ProductOfData(Head(products_data))).products,
                      Tail(products_data))

\* remove_product (lines 30-35)
remove_product(prods, sku) ==
    IF sku \in DOMAIN prods
    THEN [products |-> [k \in DOMAIN prods \ {sku} |-> prods[k]], ret |-> TRUE]
    ELSE [products |-> prods, ret |-> FALSE]

\* update_product_quantity (lines 37-41)
update_product_quantity(prods, sku, new_quantity) ==
    IF sku \in DOMAIN prods
    THEN LET r == update_quantity(prods[sku], new_quantity)
         IN  [products |-> [prods EXCEPT ![sku] = r.product], ret |-> r.ret]
    ELSE [products |-> prods, ret |-> FALSE]

\* get_all_products (lines 49-51)
get_all_products(prods) == [k \in DOMAIN prods |-> get_product_info(prods[k])]

-----------------------------------------------------------------------------
(* inventory_data.json *)

Missing == [kind |-> "missing", data |-> <<>>]

\* a file that is not JSON
Invalid == [kind |-> "invalid", data |-> <<>>]

\* the JSON list InventoryScraper.scrape_inventory dumps into the same
\* file name (src/scraper.py lines 95-96)
ScrapedList == [kind |-> "list", data |-> <<>>]

\* save_to_json (lines 68-71): the JSON object of get_all_products()
save_to_json(prods) == [kind |-> "dict", data |-> get_all_products(prods)]

\* a saved inventory with a product image
SavedWithImage ==
    save_to_json("A" :> set_image_path(Product("item", 1, 1, "cat", "A"), "img"))

\* the Product load_from_json builds from one entry (lines 80-89)
ProductOfInfo(sku, info) ==
    LET product == Product(info.name, info.price, info.quantity, info.category, sku)
    IN  IF ~Falsy(info.image_path)
        THEN set_image_path(product, info.image_path)
        ELSE product

\* load_from_json (lines 73-92): the products map after the call and its
\* outcome.  open raises FileNotFoundError and json.load raises
\* JSONDecodeError before self.products is touched; both are caught.  Once
\* the file is parsed self.products is emptied, and data.items() on a JSON
\* list raises AttributeError, which is not caught
load_from_json(prods, f) ==
    IF f.kind = "missing" \/ f.kind = "invalid"
    THEN [products |-> prods, outcome |-> Return(FALSE)]
    ELSE IF f.kind = "list"
    THEN [products |-> EmptyMap, outcome |-> Raise("AttributeError")]
    ELSE [products |-> [k \in DOMAIN f.data |-> ProductOfInfo(k, f.data[k])],
          outcome  |-> Return(TRUE)]

-----------------------------------------------------------------------------
(* Calls on the inventory *)

NoLast ==
    [op |-> "none", sku |-> PyNone, value |-> 0,
     outcome |-> Return(PyNone), before |-> {}]

\* the call made, its SKU and other argument, its outcome, and the SKUs
\* the inventory held when it was made
Called(op, sku, value, outcome) ==
    [op |-> op, sku |-> sku, value |-> value,
     outcome |-> outcome, before |-> DOMAIN products]

\* entries of a scraped batch (src/scraper.py lines 42-50, 92)
BatchData ==
    [name : {"item"}, sku : Skus, price : {0}, stock : {0, MaxAmount},
     category : {"cat"}, local_image_path : {PyNone, "img"}]

Batches == UNION {[1..n -> BatchData] : n \in 0..MaxBatch}

\* files that appear on disk from outside the InventoryManager
DiskFiles == {Missing, Invalid, ScrapedList, SavedWithImage}

InventoryInit ==
    /\ ipc = "idle"
    /\ products = EmptyMap
    /\ file = Missing
    /\ last = NoLast

AddProduct ==
    /\ ipc = "idle"
    /\ \E sku \in Skus, price \in Amounts, quantity \in Amounts :
         LET product == Product("item", price, quantity, "cat", sku)
             r       == add_product(products, product)
         IN  /\ products' = r.products
             /\ last' = Called("add_product", sku, product, Return(r.ret))
    /\ ipc' = "returned"
    /\ UNCHANGED file
    /\ UNCHANGED inventoryOthers

AddProducts ==
    /\ ipc = "idle"
    /\ \E products_data \in Batches :
         /\ products' = add_products(products, products_data)
         /\ last' = Called("add_products", PyNone, products_data, Return(PyNone))
    /\ ipc' = "returned"
    /\ UNCHANGED file
    /\ UNCHANGED inventoryOthers

RemoveProduct ==
    /\ ipc = "idle"
    /\ \E sku \in Skus :
         LET r == remove_product(products, sku)
         IN  /\ products' = r.products
             /\ last' = Called("remove_product", sku, 0, Return(r.ret))
    /\ ipc' = "returned"
    /\ UNCHANGED file
    /\ UNCHANGED inventoryOthers

UpdateProductQuantity ==
    /\ ipc = "idle"
    /\ \E sku \in Skus, new_quantity \in Amounts :
         LET r == update_product_quantity(products, sku, new_quantity)
         IN  /\ products' = r.products
             /\ last' = Called("update_product_quantity", sku, new_quantity,
                               Return(r.ret))
    /\ ipc' = "returned"
    /\ UNCHANGED file
    /\ UNCHANGED inventoryOthers

\* Product.update_quantity called on a product of the inventory
ProductUpdateQuantity ==
    /\ ipc = "idle"
    /\ \E sku \in DOMAIN products, new_quantity \in Amounts :
         LET r == update_quantity(products[sku], new_quantity)
         IN  /\ products' = [products EXCEPT ![sku] = r.product]
             /\ last' = Called("update_quantity", sku, new_quantity, Return(r.ret))
    /\ ipc' = "returned"
    /\ UNCHANGED file
    /\ UNCHANGED inventoryOthers

\* Product.update_price called on a product of the inventory
ProductUpdatePrice ==
    /\ ipc = "idle"
    /\ \E sku \in DOMAIN products, new_price \in Amounts :
         LET r == update_price(products[sku], new_price)
         IN  /\ products' = [products EXCEPT ![sku] = r.product]
             /\ last' = Called("update_price", sku, new_price, Return(r.ret))
    /\ ipc' = "returned"
    /\ UNCHANGED file
    /\ UNCHANGED inventoryOthers

SaveToJson ==
    /\ ipc = "idle"
    /\ file' = save_to_json(products)
    /\ last' = Called("save_to_json", PyNone, 0, Return(PyNone))
    /\ ipc' = "returned"
    /\ UNCHANGED products
    /\ UNCHANGED inventoryOthers

LoadFromJson ==
    /\ ipc = "idle"
    /\ LET r == load_from_json(products, file)
       IN  /\ products' = r.products
           /\ last' = Called("load_from_json", PyNone, 0, r.outcome)
    /\ ipc' = "returned"
    /\ UNCHANGED file
    /\ UNCHANGED inventoryOthers

\* the file is deleted, damaged, restored or written by the scraper
FileWritten ==
    /\ ipc = "idle"
    /\ \E f \in DiskFiles :
         /\ f # file
         /\ file' = f
    /\ UNCHANGED <<ipc, products, last>>
    /\ UNCHANGED inventoryOthers

\* the caller takes the outcome
InventoryReturn ==
    /\ ipc = "returned"
    /\ ipc' = "idle"
    /\ last' = NoLast
    /\ UNCHANGED <<products, file>>
    /\ UNCHANGED inventoryOthers

\* the inventory in memory
InventoryNext ==
    \/ AddProduct
    \/ AddProducts
    \/ RemoveProduct
    \/ UpdateProductQuantity
    \/ ProductUpdateQuantity
    \/ ProductUpdatePrice
    \/ InventoryReturn

\* the inventory and its file
PersistenceNext ==
    \/ AddProduct
    \/ RemoveProduct
    \/ SaveToJson
    \/ LoadFromJson
    \/ FileWritten
    \/ InventoryReturn

-----------------------------------------------------------------------------
(* InventoryScraper.get_page_content: src/scraper.py lines 18-30, and its  *)
(* caller scrape_inventory, lines 76-83                                    *)

\* line 20
max_retries == 3

\* the base url of main() and an image url
Urls == {"https://b2b.unimall.lt/", "https://b2b.unimall.lt/img.jpg"}

\* response.text of a successful request; '' is falsy
Texts == {"", "<html>"}

\* the requests.RequestException a request can end in: session.get raises
\* ConnectionError or Timeout, raise_for_status raises HTTPError
RequestExceptions == {"ConnectionError", "Timeout", "HTTPError"}

Succeeded(text) == [ok |-> TRUE, text |-> text, exc |-> ""]

Failed(exc) == [ok |-> FALSE, text |-> "", exc |-> exc]

\* the test one too far: attempt == max_retries
M_IsLastAttempt_late(a) == a = max_retries

\* line 27
IsLastAttempt(a) == a = max_retries - 1

ScraperInit ==
    /\ spc = "idle"
    /\ url = ""
    /\ attempt = 0
    /\ requests = <<>>
    /\ sleeps = 0
    /\ page = Return(PyNone)
    /\ scraped = "none"

\* scrape_inventory calls get_page_content: the loop starts at attempt 0
GetPageContent ==
    /\ spc = "idle"
    /\ \E u \in Urls : url' = u
    /\ attempt' = 0
    /\ requests' = <<>>
    /\ sleeps' = 0
    /\ page' = Return(PyNone)
    /\ scraped' = "none"
    /\ spc' = "request"
    /\ UNCHANGED scraperOthers

\* lines 23-25: the request succeeds and its text is returned
RequestSucceeds ==
    /\ spc = "request"
    /\ \E text \in Texts :
         /\ requests' = Append(requests, Succeeded(text))
         /\ page' = Return(text)
    /\ spc' = "done"
    /\ UNCHANGED <<url, attempt, sleeps, scraped>>
    /\ UNCHANGED scraperOthers

\* lines 26-29: the request raises a RequestException; on the last attempt
\* None is returned, otherwise the handler goes on to sleep
RequestFails ==
    /\ spc = "request"
    /\ \E exc \in RequestExceptions : requests' = Append(requests, Failed(exc))
    /\ IF IsLastAttempt(attempt)
       THEN /\ page' = Return(PyNone)
            /\ spc' = "done"
       ELSE /\ page' = page
            /\ spc' = "sleep"
    /\ UNCHANGED <<url, attempt, sleeps, scraped>>
    /\ UNCHANGED scraperOthers

\* line 30, then the next round of the loop; when range(max_retries) is
\* used up the function ends and returns None
Sleep ==
    /\ spc = "sleep"
    /\ sleeps' = sleeps + 1
    /\ attempt' = attempt + 1
    /\ IF attempt + 1 < max_retries
       THEN /\ spc' = "request"
            /\ page' = page
       ELSE /\ spc' = "done"
            /\ page' = Return(PyNone)
    /\ UNCHANGED <<url, requests, scraped>>
    /\ UNCHANGED scraperOthers

\* scrape_inventory lines 81-83: no html, no products; otherwise it goes
\* on to extract them
ScrapeInventory ==
    /\ spc = "done"
    /\ scraped' = IF Falsy(page.value) THEN "[]" ELSE "extracted"
    /\ spc' = "scraped"
    /\ UNCHANGED <<url, attempt, requests, sleeps, page>>
    /\ UNCHANGED scraperOthers

\* the scraper is used again
ScraperReturn ==
    /\ spc = "scraped"
    /\ spc' = "idle"
    /\ UNCHANGED <<url, attempt, requests, sleeps, page, scraped>>
    /\ UNCHANGED scraperOthers

ScraperNext ==
    \/ GetPageContent
    \/ RequestSucceeds
    \/ RequestFails
    \/ Sleep
    \/ ScrapeInventory
    \/ ScraperReturn

-----------------------------------------------------------------------------
(* The specifications: every part starts in its initial state *)

Init ==
    /\ StatsInit
    /\ CInit
    /\ InventoryInit
    /\ ScraperInit

\* one caller of the statistics functions
Spec == Init /\ [][Next]_allvars

\* NumThreads concurrent callers of the statistics functions
SpecConcurrent == Init /\ [][CNext]_allvars

\* calls on the InventoryManager and on its products
SpecInventory == Init /\ [][InventoryNext]_allvars

\* the InventoryManager and the file inventory_data.json
SpecPersistence == Init /\ [][PersistenceNext]_allvars

\* the scraper fetching a page; every request made returns or raises, and
\* every sleep ends
SpecScraper == Init /\ [][ScraperNext]_allvars /\ WF_allvars(ScraperNext)

-----------------------------------------------------------------------------
(* Properties *)

Returned == pc = "returned"

IsRate == fn \in {"calculate_efficiency_rate", "calculate_accuracy_rate",
                  "calculate_utilization_rate"}

IsInterval == fn = "calculate_confidence_interval"

IsSignificance == fn = "calculate_statistical_significance"

IsImprovement == fn = "get_relative_improvement"

\* the arguments of the call respect the contract: counts with
\* 0 <= successes <= total, rates derived from such counts
ArgsInContract ==
    \/ (IsRate \/ IsInterval) /\ InContract(args[1], args[2])
    \/ IsSignificance /\ InContract(args[1], args[2]) /\ InContract(args[3], args[4])
    \/ IsImprovement

NoSignal == <<Zero, P_One>>

\* a whole column of the 2x2 table is zero: no successes in either group,
\* or no failures in either group
ZeroColumn ==
    \/ args[1] = 0 /\ args[3] = 0
    \/ args[1] = args[2] /\ args[3] = args[4]

\* C1: every call with in-contract arguments returns a value and raises
\* no exception.
C1_NeverRaises ==
    (Returned /\ ArgsInContract) => result.kind = "return"

\* C2: with both totals positive and a zero column in the table, the
\* chi-square test returns (chi2 = 0, p_value = 1.0).
C2_ZeroColumnNoSignal ==
    (IsSignificance /\ ArgsInContract /\ args[2] > 0 /\ args[4] > 0 /\ ZeroColumn)
        => (result.kind = "return" /\ result.value = NoSignal)

\* C3: with control_total = 0 or test_total = 0 the chi-square test returns
\* exactly (0, 1.0), whatever the other arguments, and builds no
\* contingency table.
C3_ZeroTotalShortCircuit ==
    (IsSignificance /\ (args[2] = 0 \/ args[4] = 0))
        => /\ result.kind = "return"
           /\ result.value = NoSignal
           /\ contingency_table = NotBuilt

\* a call with one total zero, the other positive, and a success count
\* above its zero total
C3_Witness ==
    /\ IsSignificance
    /\ args[2] = 0 /\ args[1] > 0 /\ args[4] > 0
    /\ result.kind = "return" /\ result.value = NoSignal
    /\ contingency_table = NotBuilt

C5_IntervalWithinUnit ==
    (IsInterval /\ ArgsInContract /\ 0 < args[3] /\ args[3] < 1000)
        => /\ result.kind = "return"
           /\ IsFin(result.value[1]) /\ IsFin(result.value[2])
           /\ 0 <= result.value[1][2]
           /\ result.value[1][2] <= result.value[2][2]
           /\ result.value[2][2] <= Scale

\* a positive rate whose lower bound was clamped to 0
C5_Witness ==
    /\ IsInterval /\ ArgsInContract
    /\ args[1] > 0 /\ args[1] < args[2]
    /\ 0 < args[3] /\ args[3] < 1000
    /\ result.kind = "return"
    /\ result.value[1] = Fin(0)
    /\ IsFin(result.value[2]) /\ result.value[2][2] > 0

\* C6: with total = 0 the interval is the sentinel (0, 0) for any successes
\* and any confidence, and neither the division nor the quantile is
\* computed.
C6_ZeroTotalSentinel ==
    (IsInterval /\ args[2] = 0)
        => /\ result.kind = "return"
           /\ result.value = <<Fin(0), Fin(0)>>
           /\ z = NotComputed

\* total = 0 with positive successes and confidence 1.0
C6_Witness ==
    /\ IsInterval
    /\ args[2] = 0 /\ args[1] > 0 /\ args[3] = 1000
    /\ result.kind = "return" /\ result.value = <<Fin(0), Fin(0)>>

\* C7: each rate function returns numerator / denominator when the
\* denominator is positive and 0 when it is 0.
C7_RateIsQuotient ==
    IsRate
        => /\ result.kind = "return"
           /\ args[2] > 0 => /\ result.value[2] > 0
                             /\ result.value[1] * args[2] = args[1] * result.value[2]
           /\ args[2] = 0 => result.value = Zero

\* the accuracy rate of 0 out of 0
C7_Witness ==
    /\ fn = "calculate_accuracy_rate"
    /\ args = <<0, 0>>
    /\ result.kind = "return" /\ result.value = Zero

\* C8: for 0 <= successes <= total the accuracy rate lies in [0, 1].
C8_AccuracyWithinUnit ==
    (fn = "calculate_accuracy_rate" /\ ArgsInContract)
        => /\ result.kind = "return"
           /\ RLeq(Zero, result.value)
           /\ RLeq(result.value, <<1, 1>>)

\* a rate strictly between 0 and 1
C8_Witness ==
    /\ fn = "calculate_accuracy_rate" /\ ArgsInContract
    /\ result.kind = "return"
    /\ RLess(Zero, result.value) /\ RLess(result.value, <<1, 1>>)

\* C9: with control_rate = 0 the relative improvement is +infinity when
\* test_rate > 0 and 0 when test_rate = 0, and no division by control_rate
\* takes place.
C9_ZeroControlRate ==
    (IsImprovement /\ args[1] = Zero)
        => /\ result.kind = "return"
           /\ RLess(Zero, args[2]) => result.value = Inf
           /\ args[2] = Zero => result.value = Zero

\* the rates of control = (0, 1000) and test = (5, 1000)
C9_Witness ==
    /\ IsImprovement
    /\ args = <<Zero, <<1, 200>>>>
    /\ result.kind = "return" /\ result.value = Inf

\* C10: with control_rate > 0 the relative improvement is
\* ((test_rate - control_rate) / control_rate) * 100: zero, positive or
\* negative exactly as test_rate equals, exceeds or is below control_rate,
\* and never below -100.
C10_RelativeImprovement ==
    (IsImprovement /\ RLess(Zero, args[1]))
        => /\ result.kind = "return"
           /\ result.value[2] > 0
           /\ RMul(result.value, args[1]) = RMul(RSub(args[2], args[1]), Hundred)
           /\ (result.value = Zero) <=> (args[2] = args[1])
           /\ RLess(Zero, result.value) <=> RLess(args[1], args[2])
           /\ RLess(result.value, Zero) <=> RLess(args[2], args[1])
           /\ RLeq(<<-100, 1>>, result.value)

\* the rates of control = (100, 1000) and test = (120, 1000): +20 percent
C10_Witness ==
    /\ IsImprovement
    /\ args = <<<<1, 10>>, <<3, 25>>>>
    /\ result.kind = "return" /\ result.value = <<20, 1>>

\* the statistic as the sum over the four cells of
\* (|O - E| - min(0.5, |O - E|))^2 / E, E = row total * column total / n
YatesCell(o, rowtotal, coltotal, n) ==
    LET e   == Rat(rowtotal * coltotal, n)
        dev == RAbs(RSub(<<o, 1>>, e))
        adj == RSub(dev, RMin(Half, dev))
    IN  RQuot(RMul(adj, adj), e)

YatesStatistic(sA, tA, sB, tB) ==
    LET n  == tA + tB
        c1 == sA + sB
        c2 == n - c1
    IN  RAdd(RAdd(YatesCell(sA, tA, c1, n), YatesCell(tA - sA, tA, c2, n)),
             RAdd(YatesCell(sB, tB, c1, n), YatesCell(tB - sB, tB, c2, n)))

\* both totals positive and every expected frequency positive
PositiveExpected ==
    /\ args[2] > 0 /\ args[4] > 0
    /\ args[1] + args[3] > 0
    /\ (args[2] - args[1]) + (args[4] - args[3]) > 0

\* C11: with both totals and every expected frequency positive the
\* chi-square test returns the Yates-corrected Pearson statistic of the
\* table; it is >= 0, it is 0 with p_value 1.0 when the two groups have
\* the same proportion, and the table is built and evaluated.
C11_YatesStatistic ==
    (IsSignificance /\ ArgsInContract /\ PositiveExpected)
        => /\ result.kind = "return"
           /\ contingency_table # NotBuilt
           /\ result.value[1] = YatesStatistic(args[1], args[2], args[3], args[4])
           /\ RLeq(Zero, result.value[1])
           /\ result.value[2] = chi2_sf(result.value[1])
           /\ (args[1] * args[4] = args[3] * args[2])
                 => (result.value[1] = Zero /\ result.value[2] = P_One)

\* control = (0, 1000) against test = (5, 1000): no successes in one group,
\* and a positive statistic
C11_Witness ==
    /\ IsSignificance
    /\ args = <<0, 1000, 5, 1000>>
    /\ result.kind = "return"
    /\ RLess(Zero, result.value[1])
    /\ result.value[2] # P_One

\* upper - lower of a returned interval
Width(outcome) == outcome.value[2][2] - outcome.value[1][2]

\* the in-contract samples of the same proportion as the call's and a
\* smaller positive total
SmallerSamples ==
    {c \in Samples \cup GrowingCounts :
        /\ InContract(c[1], c[2])
        /\ 0 < c[2] /\ c[2] < args[2]
        /\ c[1] * args[2] = args[1] * c[2]}

IntervalCall ==
    IsInterval /\ ArgsInContract /\ 0 < args[3] /\ args[3] < 1000

\* C12 as stated: at a fixed proportion and confidence the width of the
\* interval is strictly smaller at the larger total.
C12_WidthShrinks ==
    IntervalCall
        => \A c \in SmallerSamples :
              Width(result)
                 < Width(calculate_confidence_interval(c[1], c[2], args[3]).outcome)

\* C12, amended: the width at the larger total is never larger, and it is
\* strictly smaller when 0 < successes < total and the interval at the
\* larger total is not the whole of [0, 1].
C12_WidthNeverGrows ==
    IntervalCall
        => \A c \in SmallerSamples :
              LET w1 == Width(calculate_confidence_interval(c[1], c[2], args[3]).outcome)
                  w2 == Width(result)
              IN  /\ w2 <= w1
                  /\ (0 < args[1] /\ args[1] < args[2] /\ w2 < Scale) => w2 < w1

\* 500 of 1000 at confidence 0.95: narrower than 5 of 10, 50 of 100 and
\* 1 of 2
C12_Witness ==
    /\ IntervalCall
    /\ args = <<500, 1000, 950>>
    /\ Cardinality(SmallerSamples) >= 3
    /\ \A c \in SmallerSamples :
          Width(result)
             < Width(calculate_confidence_interval(c[1], c[2], args[3]).outcome)

\* the outcome of the call c made on its own
SequentialOutcome(c) ==
    IF c.fn = "calculate_accuracy_rate"
    THEN calculate_accuracy_rate(c.args[1], c.args[2])
    ELSE IF c.fn = "get_relative_improvement"
    THEN get_relative_improvement(Rat(c.args[1], c.args[2]), Rat(c.args[3], c.args[4]))
    ELSE IF c.fn = "calculate_confidence_interval"
    THEN calculate_confidence_interval(c.args[1], c.args[2], c.args[3]).outcome
    ELSE calculate_statistical_significance(
             c.args[1], c.args[2], c.args[3], c.args[4]).outcome

SameOutcome(r, o) ==
    /\ r.outcome.kind = o.kind
    /\ r.outcome.value = o.value

EntriesKept == \A k \in DOMAIN products : k \in DOMAIN products' /\ products'[k] = products[k]

\* the index of the first entry of the batch with the SKU k
FirstWith(batch, k) ==
    CHOOSE i \in 1..Len(batch) :
        batch[i].sku = k /\ \A j \in 1..(i - 1) : batch[j].sku # k

\* add_product returns False and changes nothing for a falsy or known SKU,
\* and otherwise returns True and adds exactly the product
AddProductStep ==
    LET product  == last'.value
        accepted == ~Falsy(product.sku) /\ product.sku \notin DOMAIN products
    IN  /\ last'.outcome.kind = "return"
        /\ last'.outcome.value = accepted
        /\ ~accepted => products' = products
        /\ accepted => /\ DOMAIN products' = DOMAIN products \cup {product.sku}
                       /\ products'[product.sku] = product
                       /\ EntriesKept

\* add_products adds, for every new truthy SKU of the batch, the product of
\* the first entry with that SKU, and changes nothing else
AddProductsStep ==
    LET batch == last'.value
        new   == {batch[i].sku : i \in 1..Len(batch)} \ (DOMAIN products \cup {PyNone, ""})
    IN  /\ EntriesKept
        /\ DOMAIN products' = DOMAIN products \cup new
        /\ \A k \in new : products'[k] = ProductOfData(batch[FirstWith(batch, k)])

\* C14: add_product never overwrites or changes an existing entry: a
\* falsy or known SKU gives False and the same map, any other SKU gives
\* True and exactly that entry more; in add_products the first entry of a
\* repeated SKU wins and all other entries are untouched.
C14_AddNeverOverwrites ==
    [][/\ (last'.op = "add_product" /\ ipc = "idle") => AddProductStep
       /\ (last'.op = "add_products" /\ ipc = "idle") => AddProductsStep]_allvars

\* a batch of two entries with the SKU "A" and different stocks was added
\* to an inventory holding "B" only: "A" has the first stock
C14_Witness ==
    /\ last.op = "add_products"
    /\ last.before = {"B"}
    /\ Len(last.value) = 2
    /\ last.value[1].sku = "A" /\ last.value[2].sku = "A"
    /\ last.value[1].stock # last.value[2].stock
    /\ DOMAIN products = {"A", "B"}
    /\ products["A"].quantity = last.value[1].stock

NonNegative(prods) ==
    \A k \in DOMAIN prods : prods[k].quantity >= 0 /\ prods[k].price >= 0

UpdateOps == {"update_product_quantity", "update_quantity", "update_price"}

\* C15: an update call on an inventory whose quantities and prices are all
\* >= 0 leaves them all >= 0; with a negative new value or an unknown SKU
\* it returns False and leaves the whole inventory unchanged.
C15_UpdatesKeepNonNegative ==
    [][(last'.op \in UpdateOps /\ ipc = "idle" /\ NonNegative(products))
          => /\ NonNegative(products')
             /\ last'.outcome.kind = "return"
             /\ (last'.value < 0 \/ last'.sku \notin DOMAIN products)
                   => (last'.outcome.value = FALSE /\ products' = products)
             /\ (last'.value >= 0 /\ last'.sku \in DOMAIN products)
                   => last'.outcome.value = TRUE]_allvars

\* update_product_quantity with -1 on a known product was refused and the
\* inventory, "A" and "B", is non-negative
C15_Witness ==
    /\ last.op = "update_product_quantity"
    /\ last.value < 0
    /\ last.sku \in DOMAIN products
    /\ last.outcome.value = FALSE
    /\ DOMAIN products = {"A", "B"}
    /\ NonNegative(products)

\* C17: load_from_json returns False and leaves the products map as it was
\* when the file is missing or not valid JSON; the map is replaced only
\* once the file has been parsed, and then the call returns True.
C17_LoadFromJson ==
    [][(last'.op = "load_from_json" /\ ipc = "idle")
          => IF file.kind \in {"missing", "invalid"}
             THEN /\ last'.outcome.kind = "return"
                  /\ last'.outcome.value = FALSE
                  /\ products' = products
             ELSE /\ last'.outcome.kind = "return"
                  /\ last'.outcome.value = TRUE]_allvars

FailuresIn(log) == Cardinality({i \in 1..Len(log) : ~log[i].ok})

\* get_page_content has returned
PageReturned == spc \in {"done", "scraped"}

\* at most 3 requests, none after a success, a sleep after the 1st and the
\* 2nd failure only; the text of the first success is returned, and None
\* after 3 failures, without an exception
PageContentSafe ==
    /\ Len(requests) <= 3
    /\ \A i \in 1..Len(requests) : requests[i].ok => i = Len(requests)
    /\ sleeps <= 2
    /\ sleeps <= FailuresIn(requests)
    /\ PageReturned
          => /\ page.kind = "return"
             /\ sleeps = IF FailuresIn(requests) < 2 THEN FailuresIn(requests) ELSE 2
             /\ IF requests # <<>> /\ requests[Len(requests)].ok
                THEN page.value = requests[Len(requests)].text
                ELSE Len(requests) = 3 /\ page.value = PyNone

\* C16: get_page_content always ends after at most 3 requests: it returns
\* the text of the first request that succeeds and makes no request after
\* it; after 3 RequestExceptions it returns None and raises nothing; it
\* sleeps only after the 1st and the 2nd failure.
C16_AtMostThreeAttempts ==
    /\ []PageContentSafe
    /\ (spc = "request") ~> PageReturned

\* three requests failed, two sleeps, None returned
C16_Witness ==
    /\ spc = "done"
    /\ Len(requests) = 3
    /\ FailuresIn(requests) = 3
    /\ sleeps = 2
    /\ page = Return(PyNone)

=============================================================================
